---- MODULE Spec2Model ----
(***************************************************************************)
(* Agent-Orchestrator: the change handler of src/agents/tools/code_change.py*)
(* (apply_changes / revert_changes over a filesystem) and the controller of *)
(* src/agents/agent.py (process_repository_prompt).                         *)
(*                                                                          *)
(* The filesystem is a set of directories and a map from file locations to  *)
(* contents.  A location is the sequence of names from the working          *)
(* directory; a path string is a sequence of segments that may hold "..".   *)
(* The environment is fault free: no permission errors, no full disk; a    *)
(* write fails only on a content that cannot be encoded.  The agents that   *)
(* walk the repository (RepositoryAnalysisAgent, CodeReaderAgent) are       *)
(* modelled over a tree of named files.                                     *)
(***************************************************************************)
EXTENDS Integers, Sequences, FiniteSets, TLC

\* the filesystem, the backup records backup_file has written (location to
\* the content copied), and the calls of the change handler
VARIABLES files, dirs, records, before, call, ret

\* one invocation of AgentController.process_repository_prompt
VARIABLES pc, prompt, repo_path, response_text, selection_result, idx,
          context, log, result

\* for each path string, how many apply calls have reported it modified (2
\* stands for two or more) and what its live file held when the latest of
\* them began
VARIABLES hist

\* two calls of the change handler in flight at once (each with the items it
\* has still to do, its place in the current item, the content it has read
\* and its result so far), and the disk they both began on
VARIABLES tasks, start

\* what the agent that last walked the repository returned
VARIABLES scan

ctmVars == <<files, dirs, records, before, call, ret>>
orchVars == <<pc, prompt, repo_path, response_text, selection_result, idx,
              context, log, result>>
auxVars == <<hist, tasks, start, scan>>
vars == <<ctmVars, orchVars, auxVars>>

(* ---------------------------- bounds ----------------------------------- *)
MaxChanges == 2
MaxReverts == 2
MaxStages == 3
MaxRaceItems == 1
MaxRounds == 2

(* ---------------------------- paths ------------------------------------ *)
\* AgentController.uploads_dir / repository_name
RepoRoot == <<"uploads", "repo">>

\* CodeChangeHandler.backup_dir
BackupDir == Append(RepoRoot, ".code_backup")

\* The path strings callers pass: a plain file, a path with a parent-directory
\* segment, and a path that names a location inside the backup area.
PlainPath == <<"a.txt">>
EscapingPath == <<"..", "x.txt">>
BackupAreaPath == <<".code_backup", "a.txt">>
Paths == {PlainPath, EscapingPath, BackupAreaPath}

Contents == {"X", "Y"}

\* a new content that str.encode refuses: a lone surrogate, which json.loads
\* accepts in a string
Unencodable == "\\ud800"

Encodable(c) == c # Unencodable

NoLoc == <<"?">>

IsPrefix(s, t) == Len(s) <= Len(t) /\ SubSeq(t, 1, Len(s)) = s

UnderRoot(loc) == IsPrefix(RepoRoot, loc)
UnderBackup(loc) == IsPrefix(BackupDir, loc)

Front(s) == SubSeq(s, 1, Len(s) - 1)

\* How the operating system resolves base / segs: ".." steps to the parent,
\* and every component that is stepped through must be a directory.
RECURSIVE Walk(_, _, _)
Walk(ds, cur, segs) ==
    IF segs = <<>> THEN cur
    ELSE IF cur \notin ds THEN NoLoc
    ELSE LET s == Head(segs)
             nxt == IF s = ".." THEN (IF cur = <<>> THEN cur ELSE Front(cur))
                    ELSE Append(cur, s)
         IN Walk(ds, nxt, Tail(segs))

\* Path.mkdir(parents=True, exist_ok=True) on base / segs
RECURSIVE Mkdirs(_, _, _, _)
Mkdirs(fs, ds, cur, segs) ==
    IF cur \in DOMAIN fs THEN [ok |-> FALSE, dirs |-> ds]
    ELSE IF segs = <<>> THEN [ok |-> TRUE, dirs |-> ds \cup {cur}]
    ELSE LET s == Head(segs)
             nxt == IF s = ".." THEN (IF cur = <<>> THEN cur ELSE Front(cur))
                    ELSE Append(cur, s)
         IN Mkdirs(fs, ds \cup {cur}, nxt, Tail(segs))

Exists(st, loc) == loc \in DOMAIN st.files \/ loc \in st.dirs

\* open(loc, 'w').write(c): the parent must be a directory, loc must not be one
CanWrite(st, loc) == /\ loc # NoLoc
                     /\ loc # <<>>
                     /\ Front(loc) \in st.dirs
                     /\ loc \notin st.dirs

WriteFile(st, loc, c) ==
    [st EXCEPT !.files = [l \in DOMAIN st.files \cup {loc} |->
                              IF l = loc THEN c ELSE st.files[l]]]

\* the copy of backup_file, lines 37-38: a backup record comes to exist
WriteBackup(st, loc, c) ==
    [WriteFile(st, loc, c) EXCEPT !.records = [l \in DOMAIN st.records \cup {loc} |->
                                                  IF l = loc THEN c ELSE st.records[l]]]

\* self.repository_path / file_path_str, as the operating system resolves it
FileLoc(ds, p) == Walk(ds, RepoRoot, p)

\* self.backup_dir / relative_path
BackupLoc(ds, p) == Walk(ds, BackupDir, p)

(* ------------------------ CodeChangeHandler ---------------------------- *)
\* str.splitlines of a content of at most one line
Lines(c) == IF c = "" THEN <<>> ELSE <<c>>

\* the range of a hunk header over n lines, n at most 1
HunkRange(sign, n) == IF n = 0 THEN <<sign, "0,0">> ELSE <<sign, "1">>

\* generate_patch: difflib.unified_diff of the two contents (file headers,
\* hunk header, removed lines, added lines; nothing at all when the contents
\* are equal)
GeneratePatch(original, modified, p) ==
    IF original = modified THEN <<>>
    ELSE <<<<"---", p>>, <<"+++", p>>,
           <<"@@", HunkRange("-", Len(Lines(original)))
                   \o HunkRange("+", Len(Lines(modified)))>>>>
         \o [i \in 1..Len(Lines(original)) |-> <<"-", <<Lines(original)[i]>>>>]
         \o [i \in 1..Len(Lines(modified)) |-> <<"+", <<Lines(modified)[i]>>>>]

\* backup_file, line 34: datetime is the module, so datetime.now() raises
TimestampError == "AttributeError"

\* faulty variant: the copy is left out, the caller goes on as if it was made
BackupFileNoCopy(st, p) == [exc |-> "none", st |-> st]

\* backup_file(file_path): the state it leaves and the exception it raises
BackupFile(st, p) ==
    LET fl == FileLoc(st.dirs, p)
    IN IF ~Exists(st, fl) THEN [exc |-> "none", st |-> st]
       ELSE LET mk == Mkdirs(st.files, st.dirs, BackupDir, Front(p))
                st1 == [st EXCEPT !.dirs = mk.dirs]
                bl == BackupLoc(st1.dirs, p)
            IN IF ~mk.ok THEN [exc |-> "FileExistsError", st |-> st1]
               ELSE IF Exists(st1, bl) THEN [exc |-> TimestampError, st |-> st1]
               ELSE IF ~CanWrite(st1, bl) THEN [exc |-> "OSError", st |-> st1]
               ELSE [exc |-> "none", st |-> WriteBackup(st1, bl, st1.files[fl])]

\* faulty variant: the message is logged and not kept
ApplyErrorDropped(res, p, exc) == res

ApplyError(res, p, exc) ==
    [res EXCEPT !.errors = Append(@, [op |-> "modifying", path |-> p, exc |-> exc])]

WithPatch(res, p, patch) ==
    [res EXCEPT !.patches = [q \in DOMAIN res.patches \cup {p} |->
                                 IF q = p THEN patch ELSE res.patches[q]]]

\* the final write of one change: file_path.write_text, modified_files.append
\* (write_text opens the file for writing, which empties it, and then encodes)
WriteNew(st, res, p, fl, new) ==
    IF ~CanWrite(st, fl) THEN [st |-> st, res |-> ApplyError(res, p, "OSError")]
    ELSE IF ~Encodable(new)
    THEN [st |-> WriteFile(st, fl, ""), res |-> ApplyError(res, p, "UnicodeEncodeError")]
    ELSE [st |-> WriteFile(st, fl, new),
          res |-> [res EXCEPT !.modified_files = Append(@, p)]]

\* faulty variant: every file is backed up before the write, a new one as an empty file
ApplyOneBacksUpNew(st, res, p, new) ==
    LET mk == Mkdirs(st.files, st.dirs, RepoRoot, Front(p))
        st1 == [st EXCEPT !.dirs = mk.dirs]
        fl == FileLoc(st1.dirs, p)
        st2 == IF Exists(st1, fl) THEN st1 ELSE WriteFile(st1, fl, "")
        b == BackupFile(st2, p)
    IN IF ~mk.ok THEN [st |-> st1, res |-> ApplyError(res, p, "FileExistsError")]
       ELSE IF b.exc # "none" THEN [st |-> b.st, res |-> ApplyError(res, p, b.exc)]
       ELSE WriteNew(b.st, WithPatch(res, p, GeneratePatch(st2.files[fl], new, p)), p, fl, new)

\* one iteration of the loop of apply_changes (the body of the try)
ApplyOne(st, res, p, new) ==
    LET mk == Mkdirs(st.files, st.dirs, RepoRoot, Front(p))
        st1 == [st EXCEPT !.dirs = mk.dirs]
        fl == FileLoc(st1.dirs, p)
    IN IF ~mk.ok THEN [st |-> st1, res |-> ApplyError(res, p, "FileExistsError")]
       ELSE IF Exists(st1, fl)
       THEN IF fl \in st1.dirs
            THEN [st |-> st1, res |-> ApplyError(res, p, "IsADirectoryError")]
            ELSE LET original == st1.files[fl]
                     b == BackupFile(st1, p)
                 IN IF b.exc # "none"
                    THEN [st |-> b.st, res |-> ApplyError(res, p, b.exc)]
                    ELSE WriteNew(b.st, WithPatch(res, p, GeneratePatch(original, new, p)),
                                  p, fl, new)
       ELSE WriteNew(st1, WithPatch(res, p, GeneratePatch("", new, p)), p, fl, new)

RECURSIVE ApplyLoop(_, _, _)
ApplyLoop(st, res, changes) ==
    IF changes = <<>> THEN [st |-> st, res |-> res]
    ELSE LET one == ApplyOne(st, res, Head(changes)[1], Head(changes)[2])
         IN ApplyLoop(one.st, one.res, Tail(changes))

\* faulty variant: any error makes the status error, whatever went through
FinalStatusNoPartial(errors, done) ==
    IF errors # <<>> THEN "error" ELSE "success"

\* the three-way status of lines 102-103 and 142-143
FinalStatus(errors, done) ==
    IF errors # <<>> THEN (IF done # <<>> THEN "partial_success" ELSE "error")
    ELSE "success"

\* faulty variant: a call that modified nothing reports the status error
ApplyChangesIdleIsError(st, changes) ==
    LET out == ApplyLoop(st, [status |-> "success", modified_files |-> <<>>,
                              errors |-> <<>>, patches |-> <<>>], changes)
    IN [st |-> out.st,
        res |-> [out.res EXCEPT !.status = IF out.res.modified_files = <<>> THEN "error"
                                           ELSE FinalStatus(out.res.errors,
                                                            out.res.modified_files)]]

\* apply_changes(changes): changes is the dict, in its iteration order
ApplyChanges(st, changes) ==
    LET out == ApplyLoop(st, [status |-> "success", modified_files |-> <<>>,
                              errors |-> <<>>, patches |-> <<>>], changes)
    IN [st |-> out.st,
        res |-> [out.res EXCEPT !.status = FinalStatus(out.res.errors, out.res.modified_files)]]

RevertError(res, p, exc) ==
    [res EXCEPT !.errors = Append(@, [op |-> "reverting", path |-> p, exc |-> exc])]

\* faulty variant: source and destination of the copy are exchanged
RevertOneSwapped(st, res, p) ==
    LET fl == FileLoc(st.dirs, p)
        bl == BackupLoc(st.dirs, p)
    IN IF ~Exists(st, bl) THEN [st |-> st, res |-> RevertError(res, p, "FileNotFoundError")]
       ELSE IF ~Exists(st, fl) THEN [st |-> st, res |-> RevertError(res, p, "FileNotFoundError")]
       ELSE [st |-> WriteFile(st, bl, st.files[fl]),
             res |-> [res EXCEPT !.reverted_files = Append(@, p)]]

\* one iteration of the loop of revert_changes
RevertOne(st, res, p) ==
    LET fl == FileLoc(st.dirs, p)
        bl == BackupLoc(st.dirs, p)
    IN IF ~Exists(st, bl) THEN [st |-> st, res |-> RevertError(res, p, "FileNotFoundError")]
       ELSE IF bl \in st.dirs THEN [st |-> st, res |-> RevertError(res, p, "IsADirectoryError")]
       ELSE IF ~CanWrite(st, fl) THEN [st |-> st, res |-> RevertError(res, p, "OSError")]
       ELSE [st |-> WriteFile(st, fl, IF fl = bl THEN "" ELSE st.files[bl]),
             res |-> [res EXCEPT !.reverted_files = Append(@, p)]]

\* faulty variant: the first path that fails ends the batch
RECURSIVE RevertLoopAborting(_, _, _)
RevertLoopAborting(st, res, ps) ==
    IF ps = <<>> THEN [st |-> st, res |-> res]
    ELSE LET one == RevertOne(st, res, Head(ps))
         IN IF one.res.errors # res.errors THEN [st |-> one.st, res |-> one.res]
            ELSE RevertLoopAborting(one.st, one.res, Tail(ps))

RECURSIVE RevertLoop(_, _, _)
RevertLoop(st, res, ps) ==
    IF ps = <<>> THEN [st |-> st, res |-> res]
    ELSE LET one == RevertOne(st, res, Head(ps))
         IN RevertLoop(one.st, one.res, Tail(ps))

\* revert_changes(file_paths)
RevertChanges(st, ps) ==
    LET out == RevertLoop(st, [status |-> "success", reverted_files |-> <<>>,
                               errors |-> <<>>], ps)
    IN [st |-> out.st,
        res |-> [out.res EXCEPT !.status = FinalStatus(out.res.errors, out.res.reverted_files)]]

(* ------------------------ inputs of the calls -------------------------- *)
Distinct(s) == \A i, j \in 1..Len(s) : i # j => s[i] # s[j]

SeqsUpTo(S, n) == UNION {[1..k -> S] : k \in 0..n}

\* a change set is a dict: its keys are distinct
ChangeSets == {cs \in SeqsUpTo(Paths \X Contents, MaxChanges) :
                  Distinct([i \in 1..Len(cs) |-> cs[i][1]])}

RevertLists == SeqsUpTo(Paths, MaxReverts)

\* change sets of which some contents cannot be encoded
HardPaths == {PlainPath, EscapingPath}

HardChangeSets == {cs \in SeqsUpTo(HardPaths \X {"Y", Unencodable}, MaxChanges) :
                      Distinct([i \in 1..Len(cs) |-> cs[i][1]])}

HardRevertLists == SeqsUpTo(HardPaths, MaxReverts)

(* ------------------------ AgentController ------------------------------ *)
\* the keys of AgentController.agents
Catalog == {"repository_analysis", "code_reader", "planner", "gpt"}

\* the identifiers a decision may name: the catalog and one outside it
StageKeys == Catalog \cup {"refactorer"}

\* prompt: None, the empty string, a request
Prompts == {"None", "", "add an endpoint"}

\* `if prompt:`
Truthy(p) == p # "None" /\ p # ""

\* the JSON value of 'selected_agents': a list of identifiers, or a value
\* that cannot be iterated (a number, null)
NoDecision == [iterable |-> FALSE, items |-> <<>>]
Decisions == {[iterable |-> TRUE, items |-> s] : s \in SeqsUpTo(StageKeys, MaxStages)}
             \cup {NoDecision}

ResponseFields == {"selected_agents", "justification"}

\* what the external model may answer to the selection request
SelectorResponses ==
    {[kind |-> k, keys |-> {}, selected_agents |-> NoDecision, justification |-> ""] :
        k \in {"api_error", "unparseable", "not_object"}}
    \cup UNION {{[kind |-> "object", keys |-> K, selected_agents |-> d,
                  justification |-> IF "justification" \in K THEN "because" ELSE ""] :
                    d \in IF "selected_agents" \in K THEN Decisions ELSE {NoDecision}} :
                K \in SUBSET ResponseFields}

ErrorResult(msg) == [status |-> "error", message |-> msg]

\* faulty variant: a response that does not parse falls back to a default ordering
SelectorProcessDefaulting(resp) ==
    IF resp.kind = "api_error" THEN ErrorResult("selector: APIError")
    ELSE IF resp.kind = "object" /\ ResponseFields \subseteq resp.keys
    THEN [status |-> "success",
          selected_agents |-> resp.selected_agents,
          selection_justification |-> resp.justification]
    ELSE [status |-> "success",
          selected_agents |-> [iterable |-> TRUE, items |-> <<"repository_analysis", "gpt">>],
          selection_justification |-> "default"]

\* AgentSelector.process: the API call, json.loads, the two subscripts,
\* all inside one try
SelectorProcess(resp) ==
    IF resp.kind = "api_error" THEN ErrorResult("selector: APIError")
    ELSE IF resp.kind = "unparseable" THEN ErrorResult("selector: JSONDecodeError")
    ELSE IF resp.kind = "not_object" THEN ErrorResult("selector: TypeError")
    ELSE IF "selected_agents" \notin resp.keys THEN ErrorResult("selector: KeyError 'selected_agents'")
    ELSE IF "justification" \notin resp.keys THEN ErrorResult("selector: KeyError 'justification'")
    ELSE [status |-> "success",
          selected_agents |-> resp.selected_agents,
          selection_justification |-> resp.justification]

\* What the external model may answer to GPTAgent: the call fails, or it
\* returns a message whose content is a string.  parsed tells what json.loads
\* would make of that string: nothing, or an object with some of the keys
\* explanation and changes.
ModifierFields == {"explanation", "changes"}

NotJson == [ok |-> FALSE, keys |-> {}, changes |-> <<>>]

ModifierTexts ==
    {NotJson}
    \cup UNION {{[ok |-> TRUE, keys |-> K, changes |-> cs] :
                   cs \in IF "changes" \in K THEN {<<>>, <<<<PlainPath, "Y">>>>} ELSE {<<>>}} :
                K \in SUBSET ModifierFields}

ModifierReplies ==
    {[kind |-> "api_error", content |-> [type |-> "none", parsed |-> NotJson]]}
    \cup {[kind |-> "message", content |-> [type |-> "str", parsed |-> t]] :
            t \in ModifierTexts}

\* GPTAgent.process: the content of the message is returned as it is
GPTProcess(reply) ==
    IF reply.kind = "api_error" THEN [status |-> "error", message |-> "gpt: APIError"]
    ELSE [status |-> "success", response |-> reply.content]

\* what process() of each stage may return
AgentResults(key) ==
    CASE key = "repository_analysis" ->
            {[status |-> "success", results |-> "stats"],
             ErrorResult("repository_analysis: OSError")}
      [] key = "code_reader" ->
            {[status |-> "success", code_contents |-> "blob"],
             ErrorResult("code_reader: OSError")}
      [] key = "planner" ->
            {[status |-> "success", plan |-> "plan text"],
             ErrorResult("planner: APIError")}
      [] key = "gpt" ->
            {GPTProcess(m) : m \in ModifierReplies}

\* line 323: `if selection_result["status"] == "error": return selection_result`
SelectionFailed(sel) == sel.status = "error"

\* faulty variant: the check looks for a tag the stages never use
StageFailedWrongTag(r) == r.status = "failed"

\* line 335: `if result["status"] == "error": return result`
StageFailed(r) == r.status = "error"

\* line 362: `if result["status"] == "error": return result`
AnalysisFailed(r) == r.status = "error"

\* faulty variant: the result takes the place of the context
UpdateReplacing(ctx, r) == r

\* context.update(result)
Update(ctx, r) ==
    [k \in DOMAIN ctx \cup DOMAIN r |-> IF k \in DOMAIN r THEN r[k] ELSE ctx[k]]

\* faulty variant: the plan is attached whenever the analysis is
BuildResponsePlanByResults(sel, ctx) ==
    LET keys == {"status", "agent_selection"}
                \cup (IF "results" \in DOMAIN ctx THEN {"analysis", "plan"} ELSE {})
                \cup (IF "response" \in DOMAIN ctx THEN {"gpt_response"} ELSE {})
    IN [k \in keys |->
          CASE k = "status" -> "success"
            [] k = "agent_selection" ->
                  [agents_used |-> sel.selected_agents,
                   justification |-> sel.selection_justification]
            [] k = "analysis" -> ctx["results"]
            [] k = "plan" -> IF "plan" \in DOMAIN ctx THEN ctx["plan"] ELSE ""
            [] k = "gpt_response" -> ctx["response"]]

\* lines 339-356: the response of a run with a prompt
BuildResponse(sel, ctx) ==
    LET keys == {"status", "agent_selection"}
                \cup (IF "results" \in DOMAIN ctx THEN {"analysis"} ELSE {})
                \cup (IF "plan" \in DOMAIN ctx THEN {"plan"} ELSE {})
                \cup (IF "response" \in DOMAIN ctx THEN {"gpt_response"} ELSE {})
    IN [k \in keys |->
          CASE k = "status" -> "success"
            [] k = "agent_selection" ->
                  [agents_used |-> sel.selected_agents,
                   justification |-> sel.selection_justification]
            [] k = "analysis" -> ctx["results"]
            [] k = "plan" -> ctx["plan"]
            [] k = "gpt_response" -> ctx["response"]]

\* faulty variant: the stage's own result is returned as it is
AnalysisResponseRaw(r) == r

\* lines 365-368: the response of a run without a prompt
AnalysisResponse(r) == [status |-> "success", analysis |-> r.results]

\* main.py, apply_changes, lines 119-136: what the endpoint answers for the
\* result res of process_repository_prompt
ApplyChangesEndpoint(res) ==
    IF res.status = "error" THEN [status |-> "http 400", detail |-> res.message]
    ELSE IF /\ "gpt_response" \in DOMAIN res
            /\ res.gpt_response.type = "dict"
            /\ "change_results" \in res.gpt_response.keys
         THEN [status |-> "success", changes |-> res.gpt_response.change_results]
         ELSE [status |-> "error",
               message |-> "No code changes were generated from the prompt"]

\* an exception that leaves process_repository_prompt uncaught
Uncaught(exc) == [status |-> "uncaught", message |-> exc]

\* Where the loop of lines 330-337 stands once no await is pending, about to
\* take item i of the decision: the end of the loop, a failed lookup in
\* self.agents, or the next stage.
LoopAt(sel, ctx, i) ==
    LET d == sel.selected_agents
    IN IF ~d.iterable THEN [pc |-> "Fault", result |-> Uncaught("TypeError")]
       ELSE IF i > Len(d.items) THEN [pc |-> "Done", result |-> BuildResponse(sel, ctx)]
       ELSE IF d.items[i] \notin Catalog THEN [pc |-> "Fault", result |-> Uncaught("KeyError")]
       ELSE [pc |-> "Executing", result |-> [status |-> "none"]]

(* ------------------------ the state machine ---------------------------- *)
NoCall == [kind |-> "none"]
NoResult == [status |-> "none"]

NoScan == [agent |-> "none"]

NoDisk == [files |-> <<>>, dirs |-> {}, records |-> <<>>]

Tasks == {1, 2}
IdleTask == [call |-> NoCall, todo |-> <<>>, pc |-> "idle", original |-> "", res |-> NoResult]

InitDirs == {<<>>, <<"uploads">>, RepoRoot, BackupDir}

\* an uploaded repository that holds a.txt or not, next to a file x.txt of the
\* uploads directory or not
InitFiles == UNION {[D -> {"X"}] : D \in SUBSET {Append(RepoRoot, "a.txt"),
                                                 <<"uploads", "x.txt">>}}

\* CodeChangeHandler.__init__ has made the backup directory; no call yet
CtmStart == /\ dirs = InitDirs
            /\ records = <<>>
            /\ hist = [p \in Paths |-> [n |-> 0, prior |-> "absent"]]
            /\ tasks = [t \in Tasks |-> IdleTask]
            /\ start = [round |-> 0, disk |-> NoDisk]
            /\ scan = NoScan
            /\ before = files
            /\ call = NoCall
            /\ ret = NoResult

\* AgentController.__init__: no invocation yet
OrchStart == /\ pc = "Idle"
             /\ prompt = "None"
             /\ repo_path = "None"
             /\ response_text = [kind |-> "none"]
             /\ selection_result = NoResult
             /\ idx = 0
             /\ context = <<>>
             /\ log = <<>>
             /\ result = NoResult

(* ---- the change handler: any sequence of apply and revert calls ---- *)
Disk == [files |-> files, dirs |-> dirs, records |-> records]

CtmInit == files \in InitFiles /\ CtmStart /\ OrchStart

\* one call of apply_changes, from its entry to its return
ApplyCall(changes) ==
    \E out \in {ApplyChanges(Disk, changes)} :
       /\ files' = out.st.files
       /\ dirs' = out.st.dirs
       /\ records' = out.st.records
       /\ before' = files
       /\ call' = [kind |-> "apply", changes |-> changes]
       /\ ret' = out.res

Apply(changes) == ApplyCall(changes) /\ UNCHANGED <<orchVars, auxVars>>

\* one call of revert_changes, from its entry to its return
RevertCall(ps) ==
    \E out \in {RevertChanges(Disk, ps)} :
       /\ files' = out.st.files
       /\ dirs' = out.st.dirs
       /\ records' = out.st.records
       /\ before' = files
       /\ call' = [kind |-> "revert", paths |-> ps]
       /\ ret' = out.res

Revert(ps) == RevertCall(ps) /\ UNCHANGED <<orchVars, auxVars>>

CtmNext == \/ \E cs \in ChangeSets : Apply(cs)
           \/ \E ps \in RevertLists : Revert(ps)

SpecCTM == CtmInit /\ [][CtmNext]_vars

\* the same calls, with new contents that may fail to encode
HardNext == \/ \E cs \in HardChangeSets : Apply(cs)
            \/ \E ps \in HardRevertLists : Revert(ps)

SpecHard == CtmInit /\ [][HardNext]_vars

(* ---- the controller: one invocation of process_repository_prompt ---- *)
Init == files = <<>> /\ CtmStart /\ OrchStart

\* lines 310-321 and 358-360: look the repository up, branch on the prompt
Start(found, p) ==
    /\ pc = "Idle"
    /\ prompt' = p
    /\ repo_path' = IF found THEN "uploads/repo" ELSE "None"
    /\ IF ~found
       THEN /\ pc' = "Failed"
            /\ result' = ErrorResult("Repository not found")
            /\ UNCHANGED context
       ELSE IF Truthy(p)
       THEN /\ pc' = "SelectionPending"
            /\ context' = [prompt |-> p]
            /\ UNCHANGED result
       ELSE /\ pc' = "AnalysisOnly"
            /\ UNCHANGED <<context, result>>
    /\ UNCHANGED <<response_text, selection_result, idx, log, ctmVars, auxVars>>

\* lines 322-330: the Selector answers
Select(resp) ==
    /\ pc = "SelectionPending"
    /\ response_text' = resp
    /\ \E sel \in {SelectorProcess(resp)} :
          /\ log' = Append(log, [agent |-> "selector", result |-> sel])
          /\ IF SelectionFailed(sel)
             THEN /\ pc' = "Failed"
                  /\ result' = sel
                  /\ UNCHANGED <<selection_result, idx>>
             ELSE /\ selection_result' = sel
                  /\ idx' = 1
                  /\ pc' = LoopAt(sel, context, 1).pc
                  /\ result' = LoopAt(sel, context, 1).result
    /\ UNCHANGED <<prompt, repo_path, context, ctmVars, auxVars>>

\* lines 331-337: stage idx returns, then the loop goes on to the next item
StageReturns(r) ==
    /\ log' = Append(log, [agent |-> selection_result.selected_agents.items[idx],
                           result |-> r])
    /\ IF StageFailed(r)
       THEN /\ pc' = "Failed"
            /\ result' = r
            /\ UNCHANGED <<context, idx>>
       ELSE /\ context' = Update(context, r)
            /\ idx' = idx + 1
            /\ pc' = LoopAt(selection_result, context', idx + 1).pc
            /\ result' = LoopAt(selection_result, context', idx + 1).result
    /\ UNCHANGED <<prompt, repo_path, response_text, selection_result, ctmVars, auxVars>>

RunStage ==
    /\ pc = "Executing"
    /\ \E r \in AgentResults(selection_result.selected_agents.items[idx]) : StageReturns(r)

\* lines 360-368: the run without a prompt
RunAnalysisOnly(r) ==
    /\ pc = "AnalysisOnly"
    /\ log' = Append(log, [agent |-> "repository_analysis", result |-> r])
    /\ IF AnalysisFailed(r)
       THEN pc' = "Failed" /\ result' = r
       ELSE pc' = "Done" /\ result' = AnalysisResponse(r)
    /\ UNCHANGED <<prompt, repo_path, response_text, selection_result, idx,
                   context, ctmVars, auxVars>>

Next == \/ \E found \in BOOLEAN, p \in Prompts : Start(found, p)
        \/ \E resp \in SelectorResponses : Select(resp)
        \/ RunStage
        \/ \E r \in AgentResults("repository_analysis") : RunAnalysisOnly(r)

Spec == Init /\ [][Next]_vars

(* ======================= claims: the controller ======================== *)
\* the Selector's answer is not the two-field structure
Malformed(resp) ==
    \/ resp.kind \in {"unparseable", "not_object"}
    \/ resp.kind = "object" /\ ~(ResponseFields \subseteq resp.keys)

PromptRun == /\ pc \notin {"Idle", "SelectionPending"}
             /\ repo_path # "None"
             /\ prompt \notin {"None", ""}

StageEntries == {i \in 1..Len(log) : log[i].agent # "selector"}

\* C1: in a run with a prompt, a Selector response that does not parse as the
\* two-field structure, or lacks one of the two fields, ends the run in Failed
\* with the Selector's error result; no stage has run and no decision (no
\* default ordering) has been recorded.
C1_MalformedDecisionHalts ==
    (PromptRun /\ Malformed(response_text)) =>
        /\ pc = "Failed"
        /\ log = <<[agent |-> "selector", result |-> result]>>
        /\ result.status = "error"
        /\ StageEntries = {}
        /\ selection_result = NoResult

C1_Witness ==
    /\ PromptRun
    /\ response_text.kind = "object"
    /\ response_text.keys = {"selected_agents"}
    /\ response_text.selected_agents.items = <<"repository_analysis", "gpt">>
    /\ pc = "Failed"
    /\ result = ErrorResult("selector: KeyError 'justification'")

\* C2: fail-fast: whenever a stage has returned an error result, that stage is
\* the last one executed, the run is in Failed, and the returned result is
\* exactly that error result (status and message, nothing else).
C2_FailFast ==
    \A i \in StageEntries :
        log[i].result.status = "error" =>
            /\ i = Len(log)
            /\ pc = "Failed"
            /\ result = log[i].result
            /\ DOMAIN result = {"status", "message"}

C2_Witness ==
    /\ pc = "Failed"
    /\ Len(log) = 3
    /\ log[2].result.status = "success"
    /\ log[3].result.status = "error"
    /\ result = log[3].result
    /\ idx < Len(selection_result.selected_agents.items)

NoPromptRun == pc # "Idle" /\ repo_path # "None" /\ prompt \in {"None", ""}

\* C3: a run on an existing repository without a prompt never calls the
\* Selector and executes exactly one stage, Repository-Analysis; it ends in
\* Done with the success status and the analysis stats only, or in Failed
\* with the error result of the analysis.
C3_NoPromptAnalysisOnly ==
    NoPromptRun =>
        /\ response_text = [kind |-> "none"]
        /\ selection_result = NoResult
        /\ \A i \in 1..Len(log) : log[i].agent = "repository_analysis"
        /\ \/ pc = "AnalysisOnly" /\ log = <<>>
           \/ /\ pc = "Done"
              /\ Len(log) = 1
              /\ log[1].result.status = "success"
              /\ result = [status |-> "success", analysis |-> log[1].result.results]
           \/ /\ pc = "Failed"
              /\ Len(log) = 1
              /\ log[1].result.status = "error"
              /\ result = log[1].result

C3_Witness ==
    /\ NoPromptRun
    /\ prompt = ""
    /\ pc = "Done"
    /\ log = <<[agent |-> "repository_analysis",
                result |-> [status |-> "success", results |-> "stats"]]>>
    /\ result = [status |-> "success", analysis |-> "stats"]

(* ===================== claims: the change handler ====================== *)
\* where the live file and the backup of each path string lie
LiveOf(p) == CASE p = PlainPath -> <<"uploads", "repo", "a.txt">>
               [] p = EscapingPath -> <<"uploads", "x.txt">>
               [] p = BackupAreaPath -> <<"uploads", "repo", ".code_backup", "a.txt">>

BackupOf(p) == CASE p = PlainPath -> <<"uploads", "repo", ".code_backup", "a.txt">>
                 [] p = EscapingPath -> <<"uploads", "repo", "x.txt">>
                 [] p = BackupAreaPath ->
                        <<"uploads", "repo", ".code_backup", ".code_backup", "a.txt">>

Elems(s) == {s[i] : i \in 1..Len(s)}

\* the last call was apply({p: c})
AppliedOne(p, c) == call.kind = "apply" /\ call.changes = <<<<p, c>>>>

\* the last call left every file that was there as it was
Kept(l) == l \in DOMAIN before => (l \in DOMAIN files /\ files[l] = before[l])

\* C4: path confinement: no call creates or modifies a file or a directory
\* outside the repository root.
C4_PathConfinement ==
    /\ \A l \in DOMAIN files \cup DOMAIN before :
          ~UnderRoot(l) => (l \in DOMAIN before /\ Kept(l))
    /\ \A d \in dirs : UnderRoot(d) \/ d \in InitDirs

\* C5: apply on a change set of one escaping path and one valid path returns
\* partial_success: the valid path is modified and holds its new content, the
\* escaping path is in the errors only, and nothing is written for it.
C5_EscapingPathRejected ==
    \A i \in 1..2 :
        (/\ call.kind = "apply"
         /\ Len(call.changes) = 2
         /\ call.changes[i][1] = EscapingPath
         /\ call.changes[3 - i][1] = PlainPath
         /\ BackupOf(PlainPath) \notin DOMAIN before) =>
            /\ ret.status = "partial_success"
            /\ ret.modified_files = <<PlainPath>>
            /\ files[LiveOf(PlainPath)] = call.changes[3 - i][2]
            /\ DOMAIN ret.patches = {PlainPath}
            /\ Len(ret.errors) = 1
            /\ ret.errors[1].path = EscapingPath
            /\ LiveOf(EscapingPath) \in DOMAIN files => Kept(LiveOf(EscapingPath))
            /\ LiveOf(EscapingPath) \in DOMAIN files => LiveOf(EscapingPath) \in DOMAIN before

\* C6: round trip: when apply({p: Y}) on an existing file p with no backup yet
\* has reported p as modified, a revert([p]) that follows at once reports p
\* as reverted and the live file holds again what it held before the apply.
C6_RoundTrip ==
    [][\A p \in Paths :
          (/\ call.kind = "apply"
           /\ Len(call.changes) = 1
           /\ call.changes[1][1] = p
           /\ p \in Elems(ret.modified_files)
           /\ LiveOf(p) \in DOMAIN before
           /\ BackupOf(p) \notin DOMAIN before
           /\ call'.kind = "revert"
           /\ call'.paths = <<p>>) =>
              /\ ret'.status = "success"
              /\ ret'.reverted_files = <<p>>
              /\ ret'.errors = <<>>
              /\ files'[LiveOf(p)] = before[LiveOf(p)]]_vars

\* a revert has put back the content X that backup_file copied, over the Y
\* that an apply had written
C6_Witness ==
    /\ call.kind = "revert"
    /\ call.paths = <<PlainPath>>
    /\ ret.reverted_files = <<PlainPath>>
    /\ LiveOf(PlainPath) \in DOMAIN before
    /\ before[LiveOf(PlainPath)] = "Y"
    /\ BackupOf(PlainPath) \in DOMAIN records
    /\ records[BackupOf(PlainPath)] = "X"
    /\ files[LiveOf(PlainPath)] = "X"

\* C7: apply({p: Y}) on an existing file p that holds X and has no backup yet
\* creates the backup at the same relative path under the backup directory
\* with content X, leaves the live file with exactly Y, and reports p in
\* modified_files with a patch entry for p (removed X, added Y).
C7_ApplyBacksUpThenWrites ==
    \A p \in Paths, y \in Contents :
        (/\ AppliedOne(p, y)
         /\ LiveOf(p) \in DOMAIN before
         /\ BackupOf(p) \notin DOMAIN before) =>
            /\ BackupOf(p) \in DOMAIN files
            /\ files[BackupOf(p)] = before[LiveOf(p)]
            /\ BackupOf(p) \in DOMAIN records
            /\ files[LiveOf(p)] = y
            /\ ret.status = "success"
            /\ ret.modified_files = <<p>>
            /\ ret.errors = <<>>
            /\ DOMAIN ret.patches = {p}
            /\ before[LiveOf(p)] # y =>
                  /\ <<"-", <<before[LiveOf(p)]>>>> \in Elems(ret.patches[p])
                  /\ <<"+", <<y>>>> \in Elems(ret.patches[p])

C7_Witness ==
    /\ AppliedOne(PlainPath, "Y")
    /\ before = [l \in {LiveOf(PlainPath)} |-> "X"]
    /\ files[BackupOf(PlainPath)] = "X"
    /\ files[LiveOf(PlainPath)] = "Y"
    /\ ret.modified_files = <<PlainPath>>

\* C8: apply({p: X}) where p does not exist creates the file p with content
\* X, reports p in modified_files with a patch against empty content (X
\* added, nothing removed), and makes no backup: the new file is the only
\* change on the disk, and no backup record is written.
C8_ApplyCreatesWithoutBackup ==
    \A p \in Paths, x \in Contents :
        (AppliedOne(p, x) /\ LiveOf(p) \notin DOMAIN before) =>
            /\ DOMAIN files = DOMAIN before \cup {LiveOf(p)}
            /\ files[LiveOf(p)] = x
            /\ \A l \in DOMAIN before : Kept(l)
            /\ ret.status = "success"
            /\ ret.modified_files = <<p>>
            /\ ret.errors = <<>>
            /\ DOMAIN ret.patches = {p}
            /\ ret.patches[p] = <<<<"---", p>>, <<"+++", p>>,
                                  <<"@@", <<"-", "0,0", "+", "1">>>>, <<"+", <<x>>>>>>

C8_Witness ==
    /\ AppliedOne(PlainPath, "X")
    /\ before = <<>>
    /\ DOMAIN files = {LiveOf(PlainPath)}
    /\ files[LiveOf(PlainPath)] = "X"
    /\ records = <<>>

\* C9: re-applying to a file that already has a backup succeeds: the current
\* content goes to a new, distinct backup, the new content is written to the
\* live file, and p is reported in modified_files with no error (stated for
\* the paths that stay inside the root and outside its backup directory).
C9_ReapplyMakesNewBackup ==
    \A p \in {PlainPath}, z \in Contents :
        (/\ AppliedOne(p, z)
         /\ LiveOf(p) \in DOMAIN before
         /\ BackupOf(p) \in DOMAIN before
         /\ BackupOf(p) \in DOMAIN records) =>
            /\ ret.modified_files = <<p>>
            /\ ret.errors = <<>>
            /\ files[LiveOf(p)] = z
            /\ \E l \in DOMAIN files \ DOMAIN before : files[l] = before[LiveOf(p)]
            /\ Kept(BackupOf(p))

\* C10: backups are append-only: a backup record, once backup_file has
\* written it, stays on the disk with the content it was written with.
C10_BackupsAppendOnly ==
    \A l \in DOMAIN records : l \in DOMAIN files /\ files[l] = records[l]

(* ------- the change handler, with the history of modifications -------- *)
Min(a, b) == IF a < b THEN a ELSE b

\* the history once a call c has returned r, having begun on the files b
NextHist(h, c, r, b) ==
    [p \in Paths |->
        IF c.kind = "apply" /\ p \in Elems(r.modified_files)
        THEN [n |-> Min(h[p].n + 1, 2),
              prior |-> IF LiveOf(p) \in DOMAIN b THEN b[LiveOf(p)] ELSE "absent"]
        ELSE h[p]]

ApplyTracked(changes) ==
    /\ ApplyCall(changes)
    /\ hist' = NextHist(hist, call', ret', before')
    /\ UNCHANGED <<tasks, start, scan, orchVars>>

RevertTracked(ps) ==
    /\ RevertCall(ps)
    /\ UNCHANGED <<hist, tasks, start, scan, orchVars>>

HistNext == \/ \E cs \in ChangeSets : ApplyTracked(cs)
            \/ \E ps \in RevertLists : RevertTracked(ps)

SpecHist == CtmInit /\ [][HistNext]_vars

\* C11: after two or more apply calls have each modified the file p, a
\* revert that reports p reverted leaves in p the content p had right before
\* the latest of those apply calls (stated for the path that stays inside the
\* root and outside its backup directory).
C11_RevertRestoresLatest ==
    \A p \in {PlainPath} :
        (/\ call.kind = "revert"
         /\ p \in Elems(ret.reverted_files)
         /\ hist[p].n >= 2) =>
            files[LiveOf(p)] = hist[p].prior

(* ------------------- claims: revert, status, no-op --------------------- *)
\* p had no backup when the last call began
NoBackupBefore(p) == BackupOf(p) \notin DOMAIN before

HadBackupBefore(p) == BackupOf(p) \in DOMAIN before

\* C12: a revert in which some requested path has no backup records an error
\* entry for exactly the paths without a backup, leaves the live files of
\* those paths as they were, and reports every other requested path as
\* reverted; such a path holds the content of its backup (when no requested
\* path has that backup as its own live file).
C12_RevertMissingBackup ==
    (/\ call.kind = "revert"
     /\ \E i \in 1..Len(call.paths) : NoBackupBefore(call.paths[i])) =>
        /\ [i \in 1..Len(ret.errors) |-> ret.errors[i].path]
              = SelectSeq(call.paths, NoBackupBefore)
        /\ ret.reverted_files = SelectSeq(call.paths, HadBackupBefore)
        /\ ret.status = IF ret.reverted_files = <<>> THEN "error" ELSE "partial_success"
        /\ \A p \in Elems(call.paths) :
              NoBackupBefore(p) =>
                 IF LiveOf(p) \in DOMAIN before THEN Kept(LiveOf(p))
                 ELSE LiveOf(p) \notin DOMAIN files
        /\ \A q \in Elems(call.paths) :
              (HadBackupBefore(q) /\ \A r \in Elems(call.paths) : LiveOf(r) # BackupOf(q)) =>
                 files[LiveOf(q)] = before[BackupOf(q)]

\* the path without a backup comes first, and the one after it is restored
C12_Witness ==
    /\ call.kind = "revert"
    /\ call.paths = <<EscapingPath, PlainPath>>
    /\ NoBackupBefore(EscapingPath)
    /\ LiveOf(PlainPath) \in DOMAIN before
    /\ before[LiveOf(PlainPath)] = "Y"
    /\ files[LiveOf(PlainPath)] = "X"
    /\ ret.reverted_files = <<PlainPath>>
    /\ Len(ret.errors) = 1
    /\ ret.status = "partial_success"

\* the files the last call reports as done: modified or reverted
DoneFiles == IF call.kind = "apply" THEN ret.modified_files ELSE ret.reverted_files

\* C13: the status of apply and of revert is success exactly when errors is
\* empty, partial_success exactly when errors and the modified (reverted)
\* list are both non-empty, and error exactly when errors is non-empty and
\* the modified (reverted) list is empty.
C13_ThreeWayStatus ==
    call.kind \in {"apply", "revert"} =>
        /\ ret.status \in {"success", "partial_success", "error"}
        /\ ret.status = "success" <=> ret.errors = <<>>
        /\ ret.status = "partial_success" <=> (ret.errors # <<>> /\ DoneFiles # <<>>)
        /\ ret.status = "error" <=> (ret.errors # <<>> /\ DoneFiles = <<>>)

\* an apply of two changes of which the first failed and the second went through
C13_Witness ==
    /\ call.kind = "apply"
    /\ Len(call.changes) = 2
    /\ ret.status = "partial_success"
    /\ Len(ret.errors) = 1
    /\ ret.errors[1].path = call.changes[1][1]
    /\ ret.modified_files = <<call.changes[2][1]>>

\* C14: apply with an empty change set returns success with empty
\* modified_files, errors and patches, and leaves every file, every directory
\* and every backup record as it was.
C14_EmptyApplyNoOp ==
    [][(call'.kind = "apply" /\ call'.changes = <<>>) =>
          /\ ret' = [status |-> "success", modified_files |-> <<>>,
                     errors |-> <<>>, patches |-> <<>>]
          /\ files' = files
          /\ dirs' = dirs
          /\ records' = records]_vars

\* an empty apply on a repository that holds a modified file and its backup
C14_Witness ==
    /\ call.kind = "apply"
    /\ call.changes = <<>>
    /\ ret.status = "success"
    /\ before = files
    /\ LiveOf(PlainPath) \in DOMAIN files
    /\ files[LiveOf(PlainPath)] = "Y"
    /\ BackupOf(PlainPath) \in DOMAIN records
    /\ files[BackupOf(PlainPath)] = "X"

(* ------------------- claims: the Modifier stage ------------------------ *)
\* the reply parses as the structure of the two fields explanation, changes
TwoField(m) == m.content.parsed.ok /\ ModifierFields \subseteq m.content.parsed.keys

\* entry i of the log is the Modifier stage that received the reply m
ModifierGot(i, m) ==
    /\ log[i].agent = "gpt"
    /\ m.kind = "message"
    /\ log[i].result = GPTProcess(m)

\* C15: when the reply to the Modifier stage does not parse as the two-field
\* structure, or lacks a field, the stage returns a failure result, the run
\* ends in Failed at that stage (the external model is not asked again), and
\* the change handler is not invoked.
C15_MalformedModifierFails ==
    \A i \in StageEntries : \A m \in ModifierReplies :
        (ModifierGot(i, m) /\ ~TwoField(m)) =>
            /\ log[i].result.status = "error"
            /\ pc = "Failed"
            /\ i = Len(log)
            /\ call.kind = "none"

\* C16: when the Modifier stage succeeds on a reply with a non-empty change
\* set, then once the run is Done apply has been invoked with that change
\* set, the response carries the apply summary and the diff text, and the
\* apply_changes endpoint answers with them.
C16_ModifierApplies ==
    \A i \in StageEntries : \A m \in ModifierReplies :
        (/\ pc = "Done"
         /\ ModifierGot(i, m)
         /\ TwoField(m)
         /\ m.content.parsed.changes # <<>>) =>
            /\ call.kind = "apply"
            /\ call.changes = m.content.parsed.changes
            /\ "gpt_response" \in DOMAIN result
            /\ result.gpt_response.type = "dict"
            /\ {"change_results", "diff_summary"} \subseteq result.gpt_response.keys
            /\ ApplyChangesEndpoint(result).status = "success"

(* ------------------- claims: the selection decision -------------------- *)
\* C17: a decision that lists a stage identifier more than once is rejected:
\* in every run each stage kind is executed at most once.
C17_NoDuplicateStages ==
    \A i, j \in StageEntries : i # j => log[i].agent # log[j].agent

\* C18: in every run with a prompt that has executed a stage, the first stage
\* executed is Repository-Analysis; Code-Reader, if executed, ran before
\* Planner and before Modifier; and no stage is executed after Modifier.
C18_StageOrdering ==
    (PromptRun /\ StageEntries # {}) =>
        /\ \A i \in StageEntries :
              (\A j \in StageEntries : i <= j) => log[i].agent = "repository_analysis"
        /\ \A i, j \in StageEntries :
              (log[i].agent = "code_reader" /\ log[j].agent \in {"planner", "gpt"})
                 => i < j
        /\ \A i, j \in StageEntries : log[i].agent = "gpt" => j <= i

(* ------------------- claims: the response of a run --------------------- *)
\* stage key ran in this run and returned success
RanOk(key) == \E i \in StageEntries : log[i].agent = key /\ log[i].result.status = "success"

\* the response field f is there exactly when the context key k is, with its
\* value, and that is exactly when the stage that produces k ran successfully
Carries(f, k, key) ==
    /\ f \in DOMAIN result <=> k \in DOMAIN context
    /\ f \in DOMAIN result => result[f] = context[k]
    /\ k \in DOMAIN context <=> RanOk(key)

\* C20: in Done of a run with a prompt the response has the success status
\* and the decision (agents used, justification), and it has the analysis
\* stats, the plan text and the modification outcome each exactly when the
\* key results, plan, response is in the final context, which is exactly when
\* the stage that produces it ran successfully in this run.
C20_DoneResponse ==
    (PromptRun /\ pc = "Done") =>
        /\ result.status = "success"
        /\ "agent_selection" \in DOMAIN result
        /\ result.agent_selection =
              [agents_used |-> selection_result.selected_agents,
               justification |-> selection_result.selection_justification]
        /\ DOMAIN result \subseteq
              {"status", "agent_selection", "analysis", "plan", "gpt_response"}
        /\ Carries("analysis", "results", "repository_analysis")
        /\ Carries("plan", "plan", "planner")
        /\ Carries("gpt_response", "response", "gpt")

\* a run of Repository-Analysis and Modifier, without Planner
C20_Witness ==
    /\ PromptRun
    /\ pc = "Done"
    /\ Len(log) = 3
    /\ log[2].agent = "repository_analysis"
    /\ log[3].agent = "gpt"
    /\ DOMAIN result = {"status", "agent_selection", "analysis", "gpt_response"}
    /\ result.analysis = "stats"

(* ------- the change handler under two calls in flight at once ---------- *)
RaceCalls ==
    {[kind |-> "apply", changes |-> cs] : cs \in {c \in ChangeSets : Len(c) <= MaxRaceItems}}
    \cup {[kind |-> "revert", paths |-> ps] : ps \in {r \in RevertLists : Len(r) <= MaxRaceItems}}

\* the return of a call: the status of lines 102-103 and 142-143
Finished(tk) ==
    [tk EXCEPT !.todo = <<>>, !.pc = "done", !.original = "",
               !.res.status = FinalStatus(tk.res.errors,
                                          IF tk.call.kind = "apply" THEN tk.res.modified_files
                                          ELSE tk.res.reverted_files)]

\* the end of one iteration of the loop: the next item, or the return
AfterItem(tk) ==
    IF Tail(tk.todo) = <<>> THEN Finished(tk)
    ELSE [tk EXCEPT !.todo = Tail(tk.todo), !.pc = "begin", !.original = ""]

\* the entry of a call: the results dict of lines 67-72 and 117-121
NewTask(c) ==
    LET t0 == [call |-> c,
               todo |-> IF c.kind = "apply" THEN c.changes ELSE c.paths,
               pc |-> "begin",
               original |-> "",
               res |-> IF c.kind = "apply"
                       THEN [status |-> "success", modified_files |-> <<>>,
                             errors |-> <<>>, patches |-> <<>>]
                       ELSE [status |-> "success", reverted_files |-> <<>>,
                             errors |-> <<>>]]
    IN IF t0.todo = <<>> THEN Finished(t0) ELSE t0

\* the except clause of lines 97-100: the error is recorded, the loop goes on
ApplyFails(st, tk, exc) ==
    [st |-> st,
     tk |-> AfterItem([tk EXCEPT !.res = ApplyError(tk.res, Head(tk.todo)[1], exc)])]

\* One file-level step of apply_changes on the item at the head of todo:
\*   begin  lines 76-84  make the parent directory, test the file, read it
\*   backup lines 25-34  backup_file up to the test of the backup path
\*   copy   line 37      copy the live file, as it is now, to the backup path
\*   write  lines 87-95  patch against the content read, write, report
ApplyStep(st, tk) ==
    LET p == Head(tk.todo)[1]
        new == Head(tk.todo)[2]
    IN CASE tk.pc = "begin" ->
              LET mk == Mkdirs(st.files, st.dirs, RepoRoot, Front(p))
                  st1 == [st EXCEPT !.dirs = mk.dirs]
                  fl == FileLoc(st1.dirs, p)
              IN IF ~mk.ok THEN ApplyFails(st1, tk, "FileExistsError")
                 ELSE IF ~Exists(st1, fl)
                 THEN [st |-> st1, tk |-> [tk EXCEPT !.pc = "write", !.original = ""]]
                 ELSE IF fl \in st1.dirs THEN ApplyFails(st1, tk, "IsADirectoryError")
                 ELSE [st |-> st1,
                       tk |-> [tk EXCEPT !.pc = "backup", !.original = st1.files[fl]]]
         [] tk.pc = "backup" ->
              LET mk == Mkdirs(st.files, st.dirs, BackupDir, Front(p))
                  st1 == [st EXCEPT !.dirs = mk.dirs]
              IN IF ~mk.ok THEN ApplyFails(st1, tk, "FileExistsError")
                 ELSE IF Exists(st1, BackupLoc(st1.dirs, p))
                 THEN ApplyFails(st1, tk, TimestampError)
                 ELSE [st |-> st1, tk |-> [tk EXCEPT !.pc = "copy"]]
         [] tk.pc = "copy" ->
              LET fl == FileLoc(st.dirs, p)
                  bl == BackupLoc(st.dirs, p)
              IN IF ~CanWrite(st, bl) THEN ApplyFails(st, tk, "OSError")
                 ELSE [st |-> WriteBackup(st, bl, st.files[fl]),
                       tk |-> [tk EXCEPT !.pc = "write"]]
         [] tk.pc = "write" ->
              LET out == WriteNew(st, WithPatch(tk.res, p, GeneratePatch(tk.original, new, p)),
                                  p, FileLoc(st.dirs, p), new)
              IN [st |-> out.st, tk |-> AfterItem([tk EXCEPT !.res = out.res])]

\* One file-level step of revert_changes on the path at the head of todo:
\*   begin   lines 125-129  test the backup path
\*   restore line 132       copy the backup, as it is now, over the live file
RevertStep(st, tk) ==
    LET p == Head(tk.todo)
    IN CASE tk.pc = "begin" ->
              IF ~Exists(st, BackupLoc(st.dirs, p))
              THEN [st |-> st,
                    tk |-> AfterItem([tk EXCEPT !.res = RevertError(tk.res, p,
                                                                    "FileNotFoundError")])]
              ELSE [st |-> st, tk |-> [tk EXCEPT !.pc = "restore"]]
         [] tk.pc = "restore" ->
              LET out == RevertOne(st, tk.res, p)
              IN [st |-> out.st, tk |-> AfterItem([tk EXCEPT !.res = out.res])]

TaskStep(st, tk) == IF tk.call.kind = "apply" THEN ApplyStep(st, tk) ELSE RevertStep(st, tk)

\* two calls arrive while none is in flight
RaceBegin(c1, c2) ==
    /\ \A t \in Tasks : tasks[t].pc \in {"idle", "done"}
    /\ start.round < MaxRounds
    /\ tasks' = [t \in Tasks |-> NewTask(IF t = 1 THEN c1 ELSE c2)]
    /\ start' = [round |-> start.round + 1, disk |-> Disk]
    /\ UNCHANGED <<ctmVars, hist, scan, orchVars>>

\* the scheduler lets call t take its next step
RaceStep(t) ==
    /\ tasks[t].pc \notin {"idle", "done"}
    /\ \E out \in {TaskStep(Disk, tasks[t])} :
          /\ files' = out.st.files
          /\ dirs' = out.st.dirs
          /\ records' = out.st.records
          /\ tasks' = [tasks EXCEPT ![t] = out.tk]
    /\ UNCHANGED <<before, call, ret, start, hist, scan, orchVars>>

RaceNext == \/ \E c1, c2 \in RaceCalls : RaceBegin(c1, c2)
            \/ \E t \in Tasks : RaceStep(t)

SpecRace == CtmInit /\ [][RaceNext]_vars

(* ------------------- claims: concurrent calls -------------------------- *)
\* the files on the disk d after call c alone
FilesAfter(d, c) ==
    IF c.kind = "apply" THEN ApplyChanges(d, c.changes).st
    ELSE RevertChanges(d, c.paths).st

BothDone == \A t \in Tasks : tasks[t].pc = "done"

\* C19: two concurrent calls are serializable: once both have returned, the
\* files on the disk (live files and backups) are those that one of the two
\* serial orders of the calls leaves, from the disk the calls began on.
C19_Serializable ==
    BothDone =>
        files \in {FilesAfter(FilesAfter(start.disk, tasks[1].call), tasks[2].call).files,
                   FilesAfter(FilesAfter(start.disk, tasks[2].call), tasks[1].call).files}

(* ------------------- claims: the per-file outcomes --------------------- *)
\* how many times x occurs in the sequence s
Count(x, s) == Cardinality({i \in 1..Len(s) : s[i] = x})

\* the paths the last call was asked for, and those its error messages name
Requested == IF call.kind = "apply" THEN [i \in 1..Len(call.changes) |-> call.changes[i][1]]
             ELSE call.paths

ErrorPaths == [i \in 1..Len(ret.errors) |-> ret.errors[i].path]

\* C21: no file-level outcome is dropped: after every apply (revert) call each
\* requested path is accounted for exactly once, in modified_files
\* (reverted_files) or by one error message naming it, so the lengths of the
\* two lists sum to the number of requested paths, whatever failed before it.
C21_EveryPathAccounted ==
    call.kind \in {"apply", "revert"} =>
        /\ Len(DoneFiles) + Len(ret.errors) = Len(Requested)
        /\ \A p \in Paths : Count(p, DoneFiles) + Count(p, ErrorPaths) = Count(p, Requested)

\* the first path fails at the write, the second goes through
C21_Witness ==
    /\ call.kind = "apply"
    /\ call.changes = <<<<PlainPath, Unencodable>>, <<EscapingPath, "Y">>>>
    /\ ErrorPaths = <<PlainPath>>
    /\ ret.errors[1].exc = "UnicodeEncodeError"
    /\ ret.modified_files = <<EscapingPath>>
    /\ files[LiveOf(EscapingPath)] = "Y"

\* C22: in every apply result the paths that have a patch are exactly the
\* paths of modified_files: a path whose processing failed at any step, the
\* final write included, has no patch.
C22_PatchesAreModified ==
    call.kind = "apply" =>
        /\ DOMAIN ret.patches = Elems(ret.modified_files)
        /\ \A p \in Elems(ErrorPaths) : p \notin DOMAIN ret.patches

\* the location l is on the disk after the call exactly if it was before
SamePresence(l) == (l \in DOMAIN files) <=> (l \in DOMAIN before)

\* C27: per-file atomicity of apply on error: when apply records an error for
\* a path, the live file of that path and its backup are as they were before
\* the path was processed: the live file is neither created nor changed, and
\* no backup is left behind for a file that was not overwritten. (Stated for
\* calls in which no other path is written at the place of a backup, so that
\* what is on the disk at LiveOf(p) and BackupOf(p) is the work done for p.)
C27_ErrorLeavesDiskAlone ==
    (call.kind = "apply" /\ BackupAreaPath \notin Elems(Requested)) =>
        \A p \in Elems(ErrorPaths) :
            /\ SamePresence(LiveOf(p)) /\ Kept(LiveOf(p))
            /\ SamePresence(BackupOf(p)) /\ Kept(BackupOf(p))

(* --------------- the agents that walk the repository ------------------- *)
\* the characters of the names and extensions that occur below (a string is
\* taken apart by this table)
Chars(name) == CASE name = "uploads" -> <<"u", "p", "l", "o", "a", "d", "s">>
                [] name = "repo" -> <<"r", "e", "p", "o">>
                [] name = "a.py" -> <<"a", ".", "p", "y">>
                [] name = "b.py" -> <<"b", ".", "p", "y">>
                [] name = "c.py" -> <<"c", ".", "p", "y">>
                [] name = "d.js" -> <<"d", ".", "j", "s">>
                [] name = "e.md" -> <<"e", ".", "m", "d">>
                [] name = "f.py" -> <<"f", ".", "p", "y">>
                [] name = "venv" -> <<"v", "e", "n", "v">>
                [] name = "src" -> <<"s", "r", "c">>
                [] name = "node_modules" -> <<"n", "o", "d", "e", "_", "m", "o", "d", "u", "l", "e", "s">>
                [] name = "__pycache__" -> <<"_", "_", "p", "y", "c", "a", "c", "h", "e", "_", "_">>
                [] name = ".git" -> <<".", "g", "i", "t">>
                [] name = "Makefile" -> <<"M", "a", "k", "e", "f", "i", "l", "e">>
                [] name = "notes.txt" -> <<"n", "o", "t", "e", "s", ".", "t", "x", "t">>
                [] name = "docs" -> <<"d", "o", "c", "s">>
                [] name = "x.txt" -> <<"x", ".", "t", "x", "t">>
                [] name = ".py" -> <<".", "p", "y">>
                [] name = ".js" -> <<".", "j", "s">>
                [] name = ".java" -> <<".", "j", "a", "v", "a">>
                [] name = ".cpp" -> <<".", "c", "p", "p">>
                [] name = ".h" -> <<".", "h">>
                [] name = ".cs" -> <<".", "c", "s">>
                [] name = ".php" -> <<".", "p", "h", "p">>
                [] name = ".rb" -> <<".", "r", "b">>
                [] name = ".go" -> <<".", "g", "o">>
                [] name = ".rs" -> <<".", "r", "s">>
                [] name = ".ts" -> <<".", "t", "s">>
                [] name = ".html" -> <<".", "h", "t", "m", "l">>
                [] name = ".css" -> <<".", "c", "s", "s">>
                [] name = ".sql" -> <<".", "s", "q", "l">>
                [] name = ".md" -> <<".", "m", "d">>
                [] name = ".json" -> <<".", "j", "s", "o", "n">>
                [] name = ".yaml" -> <<".", "y", "a", "m", "l">>
                [] name = ".yml" -> <<".", "y", "m", "l">>
                [] name = "/" -> <<"/">>

\* pathlib's PurePath.suffix: from the last dot of the name, unless that dot
\* is the first or the last character
LastDot(cs) == LET at == {i \in 1..Len(cs) : cs[i] = "."}
               IN IF at = {} THEN 0 ELSE CHOOSE i \in at : \A j \in at : j <= i

Suffix(name) == LET cs == Chars(name)
                    i == LastDot(cs)
                IN IF 1 < i /\ i < Len(cs) THEN SubSeq(cs, i, Len(cs)) ELSE <<>>

RECURSIVE SeqOfSet(_)
SeqOfSet(S) == IF S = {} THEN <<>>
               ELSE LET x == CHOOSE y \in S : TRUE IN <<x>> \o SeqOfSet(S \ {x})

\* the entries of one directory
Children(st, d) == {l \in DOMAIN st.files \cup st.dirs : l # <<>> /\ Front(l) = d}

IsDir(st, l) == l \in st.dirs

IsFile(st, l) == l \in DOMAIN st.files

\* faulty variant: the directories below the first level are not entered
RECURSIVE RglobTop(_, _)
RglobTop(st, todo) ==
    IF todo = <<>> THEN <<>> ELSE SeqOfSet(Children(st, Head(todo)))

\* root.rglob("*"): every entry below the directories of todo, each directory
\* that is met being entered in its turn
RECURSIVE Rglob(_, _)
Rglob(st, todo) ==
    IF todo = <<>> THEN <<>>
    ELSE LET kids == SeqOfSet(Children(st, Head(todo)))
             sub == SelectSeq(kids, LAMBDA l : IsDir(st, l))
         IN kids \o Rglob(st, Tail(todo) \o sub)

Last(l) == l[Len(l)]

\* stats["file_types"]: one more for the suffix of each file of the listing
RECURSIVE FileTypes(_, _, _)
FileTypes(st, listing, acc) ==
    IF listing = <<>> THEN acc
    ELSE LET f == Head(listing)
             t == Suffix(Last(f))
             got == IF t \in DOMAIN acc THEN acc[t] ELSE 0
             nxt == IF IsFile(st, f)
                    THEN [u \in DOMAIN acc \cup {t} |-> IF u = t THEN got + 1 ELSE acc[u]]
                    ELSE acc
         IN FileTypes(st, Tail(listing), nxt)

\* RepositoryAnalysisAgent.process
RepositoryAnalysisProcess(st, root) ==
    LET listing == Rglob(st, <<root>>)
    IN [status |-> "success",
        results |-> [total_files |-> Len(SelectSeq(listing, LAMBDA l : IsFile(st, l))),
                     total_directories |-> Len(SelectSeq(listing, LAMBDA l : IsDir(st, l))),
                     file_types |-> FileTypes(st, listing, <<>>),
                     repository_name |-> Last(root)]]

CodeExtensions == {Chars(x) : x \in {".py", ".js", ".java", ".cpp", ".h", ".cs", ".php",
                                      ".rb", ".go", ".rs", ".ts", ".html", ".css", ".sql",
                                      ".md", ".json", ".yaml", ".yml"}}

IgnoredParts == {"venv", "node_modules", "__pycache__", ".git"}

\* str(file_path): the names joined by the separator
RECURSIVE PathString(_)
PathString(l) == IF Len(l) = 1 THEN Chars(l[1])
                 ELSE PathString(Front(l)) \o Chars("/") \o Chars(Last(l))

\* sub in s, for strings
Contains(s, sub) == \E i \in 1..(Len(s) - Len(sub) + 1) : SubSeq(s, i, i + Len(sub) - 1) = sub

\* faulty variant: only the first name below the root is looked at
SkippedAtTop(l, root) == l[Len(root) + 1] \in IgnoredParts

\* any(part in str(file_path) for part in [...])
Skipped(l, root) == \E part \in IgnoredParts : Contains(PathString(l), Chars(part))

RelativeTo(l, root) == SubSeq(l, Len(root) + 1, Len(l))

\* the blob, as the list of the pieces that are joined: for each file that is
\* read a header with its relative path, then what it holds
RECURSIVE ReadAll(_, _, _)
ReadAll(st, listing, root) ==
    IF listing = <<>> THEN <<>>
    ELSE LET f == Head(listing)
             rest == ReadAll(st, Tail(listing), root)
         IN IF IsFile(st, f) /\ Suffix(Last(f)) \in CodeExtensions /\ ~Skipped(f, root)
            THEN <<[piece |-> "header", path |-> RelativeTo(f, root)],
                   [piece |-> "content", text |-> st.files[f]]>> \o rest
            ELSE rest

\* CodeReaderAgent.process
CodeReaderProcess(st, root) ==
    [status |-> "success", code_contents |-> ReadAll(st, Rglob(st, <<root>>), root)]

\* the files an uploaded repository may hold (each holds a text of its own,
\* written as the location of the file), an empty directory it may have, and
\* a file next to the repository
ScanFiles == {Append(RepoRoot, "a.py"),
              RepoRoot \o <<"venv", "b.py">>,
              RepoRoot \o <<"src", "c.py">>,
              RepoRoot \o <<"src", "node_modules", "d.js">>,
              RepoRoot \o <<".git", "e.md">>,
              RepoRoot \o <<"src", "__pycache__", "f.py">>,
              Append(RepoRoot, "Makefile"),
              Append(RepoRoot, "notes.txt"),
              <<"uploads", "x.txt">>}

Prefixes(l) == {SubSeq(l, 1, n) : n \in 0..(Len(l) - 1)}

ScanInit == /\ \E F \in SUBSET ScanFiles : files = [l \in F |-> l]
            /\ \E extra \in SUBSET {Append(RepoRoot, "docs")} :
                  dirs = {<<>>, <<"uploads">>, RepoRoot} \cup extra
                           \cup UNION {Prefixes(l) : l \in DOMAIN files}
            /\ records = <<>>
            /\ hist = [p \in Paths |-> [n |-> 0, prior |-> "absent"]]
            /\ tasks = [t \in Tasks |-> IdleTask]
            /\ start = [round |-> 0, disk |-> NoDisk]
            /\ scan = NoScan
            /\ before = <<>>
            /\ call = NoCall
            /\ ret = NoResult
            /\ OrchStart

Analyse ==
    /\ scan' = [agent |-> "repository_analysis",
                result |-> RepositoryAnalysisProcess(Disk, RepoRoot)]
    /\ UNCHANGED <<ctmVars, orchVars, hist, tasks, start>>

ReadCode ==
    /\ scan' = [agent |-> "code_reader", result |-> CodeReaderProcess(Disk, RepoRoot)]
    /\ UNCHANGED <<ctmVars, orchVars, hist, tasks, start>>

ScanNext == Analyse \/ ReadCode

SpecScan == ScanInit /\ [][ScanNext]_vars

\* sum of the values of a function with a finite domain
RECURSIVE SumOf(_)
SumOf(f) == IF DOMAIN f = {} THEN 0
            ELSE LET x == CHOOSE y \in DOMAIN f : TRUE
                 IN f[x] + SumOf([y \in DOMAIN f \ {x} |-> f[y]])

FilesBelowRoot == {l \in DOMAIN files : UnderRoot(l)}

DirsBelowRoot == {d \in dirs : UnderRoot(d) /\ d # RepoRoot}

Extensionless == {l \in FilesBelowRoot : Last(l) = "Makefile"}

\* C23: Repository-Analysis agrees with the tree: total_files is the number
\* of files and total_directories the number of directories below the root,
\* each counted once; the counts of file_types sum to total_files, and the
\* files without an extension are counted under the empty type.
C23_AnalysisCounts ==
    scan.agent = "repository_analysis" =>
        /\ scan.result.status = "success"
        /\ scan.result.results.total_files = Cardinality(FilesBelowRoot)
        /\ scan.result.results.total_directories = Cardinality(DirsBelowRoot)
        /\ SumOf(scan.result.results.file_types) = Cardinality(FilesBelowRoot)
        /\ \A l \in Extensionless :
              /\ <<>> \in DOMAIN scan.result.results.file_types
              /\ scan.result.results.file_types[<<>>] = Cardinality(Extensionless)
        /\ \A l \in FilesBelowRoot :
              Last(l) = "c.py" => scan.result.results.file_types[Chars(".py")] >= 1

\* files at two depths, one of them without extension, next to a directory
\* that holds nothing and a file outside the root
C23_Witness ==
    /\ scan.agent = "repository_analysis"
    /\ RepoRoot \o <<"src", "node_modules", "d.js">> \in FilesBelowRoot
    /\ Append(RepoRoot, "Makefile") \in FilesBelowRoot
    /\ Append(RepoRoot, "docs") \in DirsBelowRoot
    /\ <<"uploads", "x.txt">> \in DOMAIN files
    /\ scan.result.results.total_files >= 3
    /\ scan.result.results.total_directories >= 3
    /\ scan.result.results.file_types[<<>>] = 1

IgnoredFiles == {l \in FilesBelowRoot :
                    \E k \in 1..Len(RelativeTo(l, RepoRoot)) :
                       RelativeTo(l, RepoRoot)[k] \in {"venv", "node_modules", "__pycache__", ".git"}}

Pieces == scan.result.code_contents

\* C24: no file whose path has a segment named venv, node_modules, __pycache__
\* or .git, at any depth, has its header or its content in the Code-Reader
\* blob.
C24_IgnoredNeverRead ==
    scan.agent = "code_reader" =>
        \A l \in IgnoredFiles : \A k \in 1..Len(Pieces) :
            /\ Pieces[k].piece = "header" => Pieces[k].path # RelativeTo(l, RepoRoot)
            /\ Pieces[k].piece = "content" => Pieces[k].text # files[l]

\* ignored directories at the top and two levels down, and a file that is read
C24_Witness ==
    /\ scan.agent = "code_reader"
    /\ RepoRoot \o <<"venv", "b.py">> \in IgnoredFiles
    /\ RepoRoot \o <<"src", "node_modules", "d.js">> \in IgnoredFiles
    /\ RepoRoot \o <<"src", "__pycache__", "f.py">> \in IgnoredFiles
    /\ \E k \in 1..Len(Pieces) : Pieces[k].piece = "header" /\ Pieces[k].path = <<"src", "c.py">>
    /\ \E k \in 1..Len(Pieces) :
          Pieces[k].piece = "content" /\ Pieces[k].text = files[RepoRoot \o <<"src", "c.py">>]

(* ---------------- claims: the course of one invocation ----------------- *)
\* a run with a prompt whose decision has been recorded
Decided == PromptRun /\ selection_result # NoResult

\* the stage that made entry i + 1 of the log (entry 1 is the Selector's)
StageOf(i) == log[i + 1]

\* C25: the stages execute one after the other in the order of the decision:
\* stage i+1 is started only after stage i has returned success, one stage
\* at most is in progress, and when stage i+1 starts the context holds the
\* prompt and every key that the stages before it have returned.
C25_SequentialStages ==
    Decided =>
        LET items == selection_result.selected_agents.items
            n == Cardinality(StageEntries)
        IN /\ StageEntries = 2..(n + 1)
           /\ n <= Len(items)
           /\ \A i \in 1..n : StageOf(i).agent = items[i]
           /\ \A i \in 1..(n - 1) : StageOf(i).result.status = "success"
           /\ pc = "Executing" =>
                 /\ idx = n + 1
                 /\ \A i \in 1..n : StageOf(i).result.status = "success"
                 /\ DOMAIN context = {"prompt"} \cup UNION {DOMAIN StageOf(i).result : i \in 1..n}
                 /\ context["prompt"] = prompt
                 /\ \A i \in 1..n : \A k \in DOMAIN StageOf(i).result :
                       (\A j \in (i + 1)..n : k \notin DOMAIN StageOf(j).result)
                          => context[k] = StageOf(i).result[k]

\* the third stage is about to run on what the first two have returned
C25_Witness ==
    /\ Decided
    /\ pc = "Executing"
    /\ idx = 3
    /\ selection_result.selected_agents.items = <<"repository_analysis", "code_reader", "gpt">>
    /\ DOMAIN context = {"prompt", "status", "results", "code_contents"}

\* C26: every invocation ends in Done or Failed with a result that has a
\* status tag: a decision that names an identifier outside the catalog (or
\* that is not a list) ends the run in Failed with an error result and not in
\* an uncaught fault, and only stages of the catalog are ever executed.
C26_UnknownStageFails ==
    /\ pc # "Fault"
    /\ result.status \in {"none", "success", "error"}
    /\ \A i \in StageEntries : log[i].agent \in Catalog
    /\ (Decided /\ pc = "Done") =>
          /\ selection_result.selected_agents.iterable
          /\ \A i \in 1..Len(selection_result.selected_agents.items) :
                selection_result.selected_agents.items[i] \in Catalog

====
